---- MODULE Spec2Model ----
(***************************************************************************)
(* Model of the STEP -> STL converter (src/src/convert_step_to_stl.py) and *)
(* of the Blender repair script (src/src/blender_repair.py).               *)
(*                                                                         *)
(* A solid is identified by its position in the list get_solids returns;   *)
(* the list itself is modelled by the sequence of the solids' center_x     *)
(* values.  Coordinates are integers; the midpoint (min + max) / 2 is kept *)
(* doubled (x_mid2 = min + max) so that no rounding is introduced, and     *)
(* `center_x < x_mid` is evaluated as `2 * center_x < x_mid2`.             *)
(***************************************************************************)
EXTENDS Integers, Sequences, FiniteSets

\* ------------------------------------------------------------------ bounds
\* solids per file and coordinate range in the whole-program specification
MaxSolids == 2
MaxCoord == 2
\* solids and coordinate range in the specification of split_left_right alone
SplitMaxSolids == 4
SplitMaxCoord == 7
\* command-line arguments after "--" given to blender_repair.py
MaxArgs == 3

VARIABLES
    pc,            \* position of the converter program
    file,          \* index of the STEP file being converted (1..4)
    solids,        \* local `solids`: sequence of center_x values
    left, right,   \* split_left_right's groups: sequences of solid indices
    x_mid2,        \* 2 * x_mid
    grp,           \* group whose mesh_and_export call is running
    shape,         \* argument `shape` of the running mesh_and_export call
    tempState,     \* temporary STL: "none", "empty", "raw", "deleted"
    unlinks,       \* os.unlink calls on the temporary file in this call
    dest,          \* destination file: "absent", "stale", "partial", "repaired", "raw"
    repairOutcome, \* outcome of subprocess.run in this call
    warnings,      \* warnings printed in this call
    scanned,       \* stdout of admesh scanned for advisory lines in this call
    report,        \* final message of mesh_and_export in this call
    started,       \* files whose read_step was invoked
    enumerated,    \* per file, number of solids get_solids returned (-1: not yet)
    calls,         \* per output, number of mesh_and_export calls
    compounds,     \* per output, number of make_compound calls
    callShape,     \* per output, the kind of shape passed to mesh_and_export
    failure,       \* the uncaught exception, if any
    bpc,           \* position of blender_repair.py
    argDash,       \* "--" is in sys.argv
    argN,          \* number of arguments after "--"
    toolbox,       \* the 3D Print Toolbox operator is registered
    ops,           \* bpy operators that completed, in order
    caught,        \* the bare except of the manifold stage caught an exception
    failedOp       \* the operator whose exception left repair_mesh

convVars == <<pc, file, solids, left, right, x_mid2, grp, shape, tempState,
              unlinks, dest, repairOutcome, warnings, scanned, report, started,
              enumerated, calls, compounds, callShape, failure>>
blendVars == <<bpc, argDash, argN, toolbox, ops, caught, failedOp>>
vars == <<convVars, blendVars>>

\* ------------------------------------------------------------ the job table
\* main: 1 = 镜腿外壳.step, 2 = 镜腿内壳.step (left/right split),
\*       3 = 眼镜-提取1.step, 4 = 眼镜-提取2.step (merge all)
Files == 1..4
SplitFiles == {1, 2}
MergeFiles == {3, 4}
Outputs == (SplitFiles \X {"left", "right"}) \cup (MergeFiles \X {"all"})

NoShape == [kind |-> "none", members |-> <<>>]
NoFailure == [cause |-> "none", file |-> 0, grp |-> "none"]

ListsOf(n, c) == UNION {[1..k -> 0..c] : k \in 0..n}

\* ------------------------------------------------------- split_left_right
RECURSIVE MinOf(_)
MinOf(s) ==
    IF Len(s) = 1 THEN s[1]
    ELSE LET m == MinOf(Tail(s)) IN IF s[1] <= m THEN s[1] ELSE m

RECURSIVE MaxOf(_)
MaxOf(s) ==
    IF Len(s) = 1 THEN s[1]
    ELSE LET m == MaxOf(Tail(s)) IN IF s[1] >= m THEN s[1] ELSE m

XMid2(s) == MinOf(s) + MaxOf(s)

Indices(s) == [i \in 1..Len(s) |-> i]

\* line 164: center_x < x_mid (variant: <=)
IsLeft_Inclusive(c, mid2) == 2 * c <= mid2
IsLeft(c, mid2) == 2 * c < mid2

\* line 165: center_x >= x_mid (variant: >)
IsRight_Strict(c, mid2) == 2 * c > mid2
IsRight(c, mid2) == 2 * c >= mid2

LeftOf(s) == SelectSeq(Indices(s), LAMBDA i : IsLeft(s[i], XMid2(s)))
RightOf(s) == SelectSeq(Indices(s), LAMBDA i : IsRight(s[i], XMid2(s)))


\* --------------------------------------------------------- the converter
Abort(cause) ==
    /\ pc' = "aborted"
    /\ failure' = [cause |-> cause, file |-> file, grp |-> grp]

\* main, lines 238-256: the first conversion is started
Main ==
    /\ pc = "main"
    /\ UNCHANGED blendVars
    /\ pc' = "read"
    /\ file' = 1
    /\ UNCHANGED <<solids, left, right, x_mid2, grp, shape, tempState, unlinks,
                   dest, repairOutcome, warnings, scanned, report, started,
                   enumerated, calls, compounds, callShape, failure>>

\* read_step: ReadFile's status is 1 or the call raises
ReadStep ==
    /\ pc = "read"
    /\ UNCHANGED blendVars
    /\ started' = started \cup {file}
    /\ \E ok \in BOOLEAN :
          IF ok THEN pc' = "get_solids" /\ UNCHANGED failure
                ELSE Abort("read")
    /\ UNCHANGED <<file, solids, left, right, x_mid2, grp, shape, tempState,
                   unlinks, dest, repairOutcome, warnings, scanned, report,
                   enumerated, calls, compounds, callShape>>

\* get_solids: the solids of the loaded shape, in the explorer's order
GetSolids ==
    /\ pc = "get_solids"
    /\ UNCHANGED blendVars
    /\ \E s \in ListsOf(MaxSolids, MaxCoord) :
          /\ solids' = s
          /\ enumerated' = [enumerated EXCEPT ![file] = Len(s)]
    /\ pc' = IF file \in SplitFiles THEN "split" ELSE "merge"
    /\ UNCHANGED <<file, left, right, x_mid2, grp, shape, tempState, unlinks,
                   dest, repairOutcome, warnings, scanned, report, started,
                   calls, compounds, callShape, failure>>

\* split_left_right, lines 161-169; min() of an empty list raises ValueError
SplitLeftRight ==
    /\ pc = "split"
    /\ UNCHANGED blendVars
    /\ IF solids = <<>>
          THEN /\ Abort("empty")
               /\ UNCHANGED <<x_mid2, left, right>>
          ELSE /\ x_mid2' = XMid2(solids)
               /\ left' = LeftOf(solids)
               /\ right' = RightOf(solids)
               /\ pc' = "left"
               /\ UNCHANGED failure
    /\ UNCHANGED <<file, solids, grp, shape, tempState, unlinks, dest,
                   repairOutcome, warnings, scanned, report, started,
                   enumerated, calls, compounds, callShape>>

\* entry of mesh_and_export(sh, <output of group g>); the destination may
\* hold a file of an earlier run
EnterMesh(g, sh) ==
    /\ grp' = g
    /\ shape' = sh
    /\ calls' = [calls EXCEPT ![<<file, g>>] = @ + 1]
    /\ callShape' = [callShape EXCEPT ![<<file, g>>] = sh.kind]
    /\ tempState' = "none"
    /\ unlinks' = 0
    /\ \E d \in {"absent", "stale"} : dest' = d
    /\ repairOutcome' = "none"
    /\ warnings' = {}
    /\ scanned' = FALSE
    /\ report' = "none"
    /\ pc' = "m_mesh"

\* make_compound(members) followed by mesh_and_export of the compound
MeshCompound(g, members) ==
    /\ compounds' = [compounds EXCEPT ![<<file, g>>] = @ + 1]
    /\ EnterMesh(g, [kind |-> "compound", members |-> members])

\* split_left_right, lines 171-172
\* (variant: without `if left:`)
SplitLeft_Unguarded ==
    /\ pc = "left"
    /\ UNCHANGED blendVars
    /\ MeshCompound("left", left)
    /\ UNCHANGED <<file, solids, left, right, x_mid2, started, enumerated, failure>>
SplitLeft ==
    /\ pc = "left"
    /\ UNCHANGED blendVars
    /\ IF left # <<>>
          THEN MeshCompound("left", left)
          ELSE /\ pc' = "right"
               /\ UNCHANGED <<grp, shape, calls, callShape, compounds, tempState,
                              unlinks, dest, repairOutcome, warnings, scanned, report>>
    /\ UNCHANGED <<file, solids, left, right, x_mid2, started, enumerated, failure>>

\* split_left_right, lines 173-174, and the return to main
SplitRight ==
    /\ pc = "right"
    /\ UNCHANGED blendVars
    /\ IF right # <<>>
          THEN MeshCompound("right", right)
          ELSE /\ pc' = "next"
               /\ UNCHANGED <<grp, shape, calls, callShape, compounds, tempState,
                              unlinks, dest, repairOutcome, warnings, scanned, report>>
    /\ UNCHANGED <<file, solids, left, right, x_mid2, started, enumerated, failure>>

\* convert_yanjingkuang, lines 213-220 and 228-235: the shape by solid count
\* (variant: without the elif branch for a single solid)
MergeKind_NoSingle(n) == IF n >= 1 THEN "compound" ELSE "assembly"
MergeKind(n) ==
    IF n > 1 THEN "compound" ELSE IF n = 1 THEN "solid" ELSE "assembly"

MergeAll ==
    /\ pc = "merge"
    /\ UNCHANGED blendVars
    /\ LET k == MergeKind(Len(solids)) IN
          IF k = "compound"
             THEN MeshCompound("all", Indices(solids))
             ELSE /\ EnterMesh("all", [kind |-> k,
                                       members |-> IF k = "solid" THEN <<1>> ELSE <<>>])
                  /\ UNCHANGED compounds
    /\ UNCHANGED <<file, solids, left, right, x_mid2, started, enumerated, failure>>


\* ------------------------------------------------------- mesh_and_export
callLocals == <<file, solids, left, right, x_mid2, grp, shape, started,
                enumerated, calls, compounds, callShape>>

\* lines 128-132: BRepMesh_IncrementalMesh; IsDone() false raises
M_Mesh ==
    /\ pc = "m_mesh"
    /\ UNCHANGED blendVars
    /\ \E done \in BOOLEAN :
          IF done THEN pc' = "m_tmp" /\ UNCHANGED failure
                  ELSE Abort("mesh")
    /\ UNCHANGED <<callLocals, tempState, unlinks, dest, repairOutcome,
                   warnings, scanned, report>>

\* lines 135-136: NamedTemporaryFile(delete=False) leaves an empty file
M_Temp ==
    /\ pc = "m_tmp"
    /\ UNCHANGED blendVars
    /\ tempState' = "empty"
    /\ pc' = "m_write"
    /\ UNCHANGED <<callLocals, unlinks, dest, repairOutcome, warnings, scanned,
                   report, failure>>

\* lines 138-144: the raw tessellation is written to the temporary file
\* (variant: without the os.unlink of line 143)
M_Write_NoUnlink ==
    /\ pc = "m_write"
    /\ UNCHANGED blendVars
    /\ \E ok \in BOOLEAN :
          IF ok THEN /\ tempState' = "raw"
                     /\ pc' = "m_repair"
                     /\ UNCHANGED <<unlinks, failure>>
                ELSE /\ Abort("write")
                     /\ UNCHANGED <<tempState, unlinks>>
    /\ UNCHANGED <<callLocals, dest, repairOutcome, warnings, scanned, report>>
M_Write ==
    /\ pc = "m_write"
    /\ UNCHANGED blendVars
    /\ \E ok \in BOOLEAN :
          IF ok THEN /\ tempState' = "raw"
                     /\ pc' = "m_repair"
                     /\ UNCHANGED <<unlinks, failure>>
                ELSE /\ tempState' = "deleted"
                     /\ unlinks' = unlinks + 1
                     /\ Abort("write")
    /\ UNCHANGED <<callLocals, dest, repairOutcome, warnings, scanned, report>>

\* outcomes of subprocess.run(cmd, ..., timeout=300), lines 105-119
Outcomes == {"exit0", "nonzero", "timeout", "nolaunch"}

\* what repair_stl_with_admesh does with an outcome: the warning it prints,
\* whether it scans stdout, whether an exception leaves the function
\* (variant: without the `except Exception` clause of lines 118-119)
RepairHandling_NoCatchAll(o) ==
    [warning |-> CASE o = "exit0" -> "none"
                   [] o = "nonzero" -> "returned"
                   [] o = "timeout" -> "timed out"
                   [] o = "nolaunch" -> "none",
     scan |-> (o = "exit0"),
     raises |-> (o = "nolaunch")]
RepairHandling(o) ==
    [warning |-> CASE o = "exit0" -> "none"
                   [] o = "nonzero" -> "returned"
                   [] o = "timeout" -> "timed out"
                   [] o = "nolaunch" -> "failed",
     scan |-> (o = "exit0"),
     raises |-> FALSE]

\* what admesh leaves at the path given with -b: the repaired mesh when it
\* exits with 0; nothing new, or an unfinished file, when it fails or is
\* killed; nothing when it never ran.  The caller's input file is only read.
DestAfter(o, d) ==
    CASE o = "exit0" -> {"repaired"}
      [] o = "nonzero" -> {d, "partial"}
      [] o = "timeout" -> {d, "partial"}
      [] o = "nolaunch" -> {d}

\* line 147: repair_stl_with_admesh(temp_file, filename)
M_Repair ==
    /\ pc = "m_repair"
    /\ UNCHANGED blendVars
    /\ \E o \in Outcomes :
          /\ repairOutcome' = o
          /\ \E d \in DestAfter(o, dest) : dest' = d
          /\ LET h == RepairHandling(o) IN
                /\ warnings' = IF h.warning = "none" THEN warnings
                               ELSE warnings \cup {h.warning}
                /\ scanned' = h.scan
                /\ IF h.raises THEN Abort("repair")
                               ELSE pc' = "m_unlink" /\ UNCHANGED failure
    /\ UNCHANGED <<callLocals, tempState, unlinks, report>>

\* line 150: os.unlink(temp_file)
M_Unlink ==
    /\ pc = "m_unlink"
    /\ UNCHANGED blendVars
    /\ tempState' = "deleted"
    /\ unlinks' = unlinks + 1
    /\ pc' = "m_report"
    /\ UNCHANGED <<callLocals, dest, repairOutcome, warnings, scanned, report,
                   failure>>

\* lines 152-156: the size is reported, or the missing output
M_Report ==
    /\ pc = "m_report"
    /\ UNCHANGED blendVars
    /\ IF dest # "absent"
          THEN report' = "saved" /\ UNCHANGED warnings
          ELSE report' = "not created" /\ warnings' = warnings \cup {"not created"}
    /\ pc' = "m_ret"
    /\ UNCHANGED <<callLocals, tempState, unlinks, dest, repairOutcome, scanned,
                   failure>>

\* mesh_and_export returns: split_left_right goes on with the right group,
\* the other callers are done with the file
Resume ==
    /\ pc = "m_ret"
    /\ UNCHANGED blendVars
    /\ pc' = IF grp = "left" THEN "right" ELSE "next"
    /\ UNCHANGED <<callLocals, tempState, unlinks, dest, repairOutcome,
                   warnings, scanned, report, failure>>

\* main, lines 256-270, and convert_yanjingkuang, line 222: the next file
NextFile ==
    /\ pc = "next"
    /\ UNCHANGED blendVars
    /\ IF file < 4 THEN file' = file + 1 /\ pc' = "read"
                   ELSE file' = file /\ pc' = "done"
    /\ solids' = <<>>
    /\ left' = <<>>
    /\ right' = <<>>
    /\ x_mid2' = 0
    /\ grp' = "none"
    /\ shape' = NoShape
    /\ UNCHANGED <<tempState, unlinks, dest, repairOutcome, warnings, scanned,
                   report, started, enumerated, calls, compounds, callShape,
                   failure>>

BlendIdle ==
    /\ bpc = "off"
    /\ argDash = FALSE
    /\ argN = 0
    /\ toolbox = FALSE
    /\ ops = <<>>
    /\ caught = FALSE
    /\ failedOp = "none"

ConvIdle(p, s) ==
    /\ pc = p
    /\ file = 1
    /\ solids = s
    /\ left = <<>>
    /\ right = <<>>
    /\ x_mid2 = 0
    /\ grp = "none"
    /\ shape = NoShape
    /\ tempState = "none"
    /\ unlinks = 0
    /\ dest = "absent"
    /\ repairOutcome = "none"
    /\ warnings = {}
    /\ scanned = FALSE
    /\ report = "none"
    /\ started = IF p = "split" THEN {1} ELSE {}
    /\ enumerated = [f \in Files |-> IF f = 1 /\ p = "split" THEN Len(s) ELSE -1]
    /\ calls = [o \in Outputs |-> 0]
    /\ compounds = [o \in Outputs |-> 0]
    /\ callShape = [o \in Outputs |-> "none"]
    /\ failure = NoFailure

\* the converter, from the start of main
Init == ConvIdle("main", <<>>) /\ BlendIdle

Next ==
    \/ Main \/ ReadStep \/ GetSolids \/ SplitLeftRight \/ SplitLeft
    \/ SplitRight \/ MergeAll \/ M_Mesh \/ M_Temp \/ M_Write \/ M_Repair
    \/ M_Unlink \/ M_Report \/ Resume \/ NextFile

Spec == Init /\ [][Next]_vars

\* split_left_right alone, on every list of solids within the split bounds:
\* the state of convert_jingtuiwaike after get_solids returned
InitSplit ==
    /\ \E s \in ListsOf(SplitMaxSolids, SplitMaxCoord) : ConvIdle("split", s)
    /\ BlendIdle

NextSplit == SplitLeftRight

SpecSplit == InitSplit /\ [][NextSplit]_vars


\* ------------------------------------------------------ blender_repair.py
\* One bpy call at position `here`: it completes, is logged and control goes
\* to `next`, or it raises and the exception leaves repair_mesh and the script.
BOp(here, op, next) ==
    /\ bpc = here
    /\ \E ok \in BOOLEAN :
          IF ok THEN /\ ops' = Append(ops, op)
                     /\ bpc' = next
                     /\ UNCHANGED failedOp
                ELSE /\ bpc' = "aborted"
                     /\ failedOp' = here
                     /\ UNCHANGED ops
    /\ UNCHANGED <<argDash, argN, toolbox, caught, convVars>>

\* lines 74-89: the arguments after "--"; fewer than two print the usage
B_Main ==
    /\ bpc = "start"
    /\ bpc' = IF argDash /\ argN >= 2 THEN "clear_select" ELSE "usage"
    /\ UNCHANGED <<argDash, argN, toolbox, ops, caught, failedOp, convVars>>

\* lines 19-31
B_ClearSelect ==
    /\ bpc = "clear_select"
    /\ BOp("clear_select", "object.select_all", "clear_delete")
B_ClearDelete ==
    /\ bpc = "clear_delete"
    /\ BOp("clear_delete", "object.delete", "import")
B_Import ==
    /\ bpc = "import"
    /\ BOp("import", "wm.stl_import", "get_obj")
B_GetObject ==
    /\ bpc = "get_obj"
    /\ BOp("get_obj", "selected_objects[0]", "mode_edit")
B_ModeEdit ==
    /\ bpc = "mode_edit"
    /\ BOp("mode_edit", "object.mode_set", "select_all")
B_SelectAll ==
    /\ bpc = "select_all"
    /\ BOp("select_all", "mesh.select_all", "remove_doubles")

\* lines 33-43: stages 1 to 4
B_RemoveDoubles ==
    /\ bpc = "remove_doubles"
    /\ BOp("remove_doubles", "mesh.remove_doubles", "normals")
B_Normals ==
    /\ bpc = "normals"
    /\ BOp("normals", "mesh.normals_make_consistent", "fill_holes")
B_FillHoles ==
    /\ bpc = "fill_holes"
    /\ BOp("fill_holes", "mesh.fill_holes", "delete_loose")
B_DeleteLoose ==
    /\ bpc = "delete_loose"
    /\ BOp("delete_loose", "mesh.delete_loose", "print3d")

\* lines 46-49: the preferred operator inside try; the bare except catches
\* whatever it raises (it always raises when the add-on is not registered)
B_Print3d ==
    /\ bpc = "print3d"
    /\ \E ok \in {b \in BOOLEAN : b => toolbox} :
          IF ok THEN /\ ops' = Append(ops, "mesh.print3d_clean_non_manifold")
                     /\ bpc' = "final_select"
                     /\ UNCHANGED caught
                ELSE /\ caught' = TRUE
                     /\ bpc' = "fb_deselect"
                     /\ UNCHANGED ops
    /\ UNCHANGED <<argDash, argN, toolbox, failedOp, convVars>>

\* lines 50-54: the fallback, run inside the except clause
B_FallbackDeselect ==
    /\ bpc = "fb_deselect"
    /\ BOp("fb_deselect", "mesh.select_all", "fb_select")
B_FallbackSelect ==
    /\ bpc = "fb_select"
    /\ BOp("fb_select", "mesh.select_non_manifold", "fb_dissolve")
\* (variant: the fallback leaves for object mode without stage 6)
B_FallbackDissolve_SkipNormals ==
    /\ bpc = "fb_dissolve"
    /\ BOp("fb_dissolve", "mesh.dissolve_degenerate", "mode_object")
B_FallbackDissolve ==
    /\ bpc = "fb_dissolve"
    /\ BOp("fb_dissolve", "mesh.dissolve_degenerate", "final_select")

\* lines 56-68: stage 6, object mode, export
B_FinalSelect ==
    /\ bpc = "final_select"
    /\ BOp("final_select", "mesh.select_all", "final_normals")
B_FinalNormals ==
    /\ bpc = "final_normals"
    /\ BOp("final_normals", "mesh.normals_make_consistent", "mode_object")
B_ModeObject ==
    /\ bpc = "mode_object"
    /\ BOp("mode_object", "object.mode_set", "export")
B_Export ==
    /\ bpc = "export"
    /\ BOp("export", "wm.stl_export", "stats")

\* lines 70-72
B_Stats ==
    /\ bpc = "stats"
    /\ bpc' = "done"
    /\ UNCHANGED <<argDash, argN, toolbox, ops, caught, failedOp, convVars>>

InitRepair ==
    /\ ConvIdle("off", <<>>)
    /\ bpc = "start"
    /\ argDash \in BOOLEAN
    /\ argN \in 0..MaxArgs
    /\ toolbox \in BOOLEAN
    /\ ops = <<>>
    /\ caught = FALSE
    /\ failedOp = "none"

NextRepair ==
    \/ B_Main \/ B_ClearSelect \/ B_ClearDelete \/ B_Import \/ B_GetObject
    \/ B_ModeEdit \/ B_SelectAll \/ B_RemoveDoubles \/ B_Normals
    \/ B_FillHoles \/ B_DeleteLoose \/ B_Print3d \/ B_FallbackDeselect
    \/ B_FallbackSelect \/ B_FallbackDissolve \/ B_FinalSelect
    \/ B_FinalNormals \/ B_ModeObject \/ B_Export \/ B_Stats

SpecRepair == InitRepair /\ [][NextRepair]_vars


\* ================================================================ claims
Count(seq, x) == Cardinality({k \in 1..Len(seq) : seq[k] = x})
InSeq(seq, x) == \E k \in 1..Len(seq) : seq[k] = x

\* C1: once split_left_right has computed its groups for a non-empty list,
\* every solid of the list occurs exactly once in left and right taken
\* together, and the groups hold nothing but solids of the list.
C1_SplitIsPartition ==
    pc = "left" =>
       /\ \A i \in 1..Len(solids) : Count(left, i) + Count(right, i) = 1
       /\ \A k \in 1..Len(left) : left[k] \in 1..Len(solids)
       /\ \A k \in 1..Len(right) : right[k] \in 1..Len(solids)
       /\ Len(left) + Len(right) = Len(solids)

\* a split with both groups populated and a solid exactly at the midpoint
C1_Witness ==
    /\ pc = "left"
    /\ Len(left) >= 1
    /\ Len(right) >= 2
    /\ \E i \in 1..Len(solids) : 2 * solids[i] = x_mid2

\* C2: x_mid is the mean of the least and the greatest center_x; a solid is
\* in left iff its center_x is strictly below x_mid and in right otherwise
\* (so a solid at x_mid is in right); centroids 0, 2, 5, 7 give x_mid 3.5,
\* left = the first two solids, right = the last two.
C2_MidpointRule ==
    pc = "left" =>
       /\ \E lo, hi \in {solids[i] : i \in 1..Len(solids)} :
             /\ \A i \in 1..Len(solids) : lo <= solids[i] /\ solids[i] <= hi
             /\ x_mid2 = lo + hi
       /\ \A i \in 1..Len(solids) :
             /\ InSeq(left, i) <=> 2 * solids[i] < x_mid2
             /\ InSeq(right, i) <=> ~(2 * solids[i] < x_mid2)
       /\ solids = <<0, 2, 5, 7>> =>
             /\ x_mid2 = 7
             /\ left = <<1, 2>>
             /\ right = <<3, 4>>

C2_Witness ==
    /\ pc = "left"
    /\ solids = <<0, 2, 5, 7>>
    /\ left = <<1, 2>>
    /\ right = <<3, 4>>

\* C3 (as claimed): when admesh timed out, mesh_and_export returns having
\* printed the timeout warning and with the raw tessellation at the
\* destination.
C3_TimeoutExportsRawMesh ==
    (pc = "m_ret" /\ repairOutcome = "timeout") =>
       /\ "timed out" \in warnings
       /\ dest = "raw"

\* C4: no outcome of the admesh subprocess makes repair_stl_with_admesh
\* raise; a non-zero exit, a timeout and a failed launch each print their
\* warning, exit code 0 prints none, and stdout is scanned exactly when the
\* exit code is 0.
C4_RepairNeverRaises ==
    /\ failure.cause # "repair"
    /\ repairOutcome # "none" =>
          /\ pc # "m_repair"
          /\ scanned <=> repairOutcome = "exit0"
          /\ repairOutcome = "exit0" =>
                warnings \cap {"returned", "timed out", "failed"} = {}
          /\ repairOutcome = "nonzero" => "returned" \in warnings
          /\ repairOutcome = "timeout" => "timed out" \in warnings
          /\ repairOutcome = "nolaunch" => "failed" \in warnings

\* admesh could not be launched and mesh_and_export went on to its clean-up
C4_Witness ==
    /\ pc = "m_unlink"
    /\ repairOutcome = "nolaunch"
    /\ "failed" \in warnings

\* C5 (as claimed): when a structural failure ended the conversion of one
\* group, the conversion of every file has still been started and, if the
\* failing group was a left group, the right group of the same file has been
\* passed to mesh_and_export.
C5_OtherGroupsStillConverted ==
    (pc = "aborted" /\ failure.cause \in {"read", "empty", "mesh", "write"}) =>
       /\ \A f \in Files : f \in started
       /\ failure.grp = "left" => calls[<<failure.file, "right">>] = 1

Degenerate(s) == s # <<>> /\ \A i, j \in 1..Len(s) : s[i] = s[j]

\* C6: when all solids of a split file share one center_x (a single solid
\* included), left is empty and right holds every solid; neither
\* make_compound nor mesh_and_export is ever called for the left group, and
\* mesh_and_export is called exactly once, for the right group, with the
\* compound of all solids; the empty group raises nothing.
C6_DegenerateSplit ==
    (file \in SplitFiles /\ Degenerate(solids) /\ pc # "split") =>
       /\ left = <<>>
       /\ right = Indices(solids)
       /\ calls[<<file, "left">>] = 0
       /\ compounds[<<file, "left">>] = 0
       /\ failure.cause # "empty"
       /\ pc \notin {"left", "right"} =>
             /\ calls[<<file, "right">>] = 1
             /\ compounds[<<file, "right">>] = 1
             /\ grp = "right"
             /\ shape = [kind |-> "compound", members |-> Indices(solids)]
       /\ pc \in {"left", "right"} => calls[<<file, "right">>] = 0

\* two solids with the same center_x, the split returned
C6_Witness ==
    /\ pc = "next"
    /\ file = 1
    /\ Len(solids) = 2
    /\ Degenerate(solids)
    /\ calls[<<1, "right">>] = 1

StageOps ==
    {"mesh.remove_doubles", "mesh.normals_make_consistent", "mesh.fill_holes",
     "mesh.delete_loose", "mesh.print3d_clean_non_manifold",
     "mesh.select_non_manifold", "mesh.dissolve_degenerate", "wm.stl_export"}

StageTrace == SelectSeq(ops, LAMBDA o : o \in StageOps)

PreferredOrder ==
    <<"mesh.remove_doubles", "mesh.normals_make_consistent", "mesh.fill_holes",
      "mesh.delete_loose", "mesh.print3d_clean_non_manifold",
      "mesh.normals_make_consistent", "wm.stl_export">>

FallbackOrder ==
    <<"mesh.remove_doubles", "mesh.normals_make_consistent", "mesh.fill_holes",
      "mesh.delete_loose", "mesh.select_non_manifold",
      "mesh.dissolve_degenerate", "mesh.normals_make_consistent",
      "wm.stl_export">>

IsPrefix(s, t) == Len(s) <= Len(t) /\ \A k \in 1..Len(s) : s[k] = t[k]

\* C7: the repair operators of repair_mesh complete in the order merge by
\* distance, normals, hole filling, loose geometry, manifold repair (the
\* preferred operator, or the two fallback operators when its exception was
\* caught), normals again, export: at every moment the operators completed so
\* far are an initial part of that order, and a completed run has performed
\* all of it, each stage once.
C7_StageOrder ==
    LET expected == IF caught THEN FallbackOrder ELSE PreferredOrder IN
       /\ IsPrefix(StageTrace, expected)
       /\ bpc \in {"stats", "done"} => StageTrace = expected

\* a completed run that went through the fallback
C7_Witness ==
    /\ bpc = "done"
    /\ caught
    /\ StageTrace = FallbackOrder

ManifoldStage == {"print3d", "fb_deselect", "fb_select", "fb_dissolve"}

\* C8 (as claimed): no exception raised in the manifold-repair stage, by the
\* preferred operator or by a fallback operation, ends repair_mesh.
C8_ManifoldStageNeverFatal ==
    bpc = "aborted" => failedOp \notin ManifoldStage

InCall ==
    \/ pc \in {"m_mesh", "m_tmp", "m_write", "m_repair", "m_unlink", "m_report", "m_ret"}
    \/ pc = "aborted" /\ failure.cause \in {"mesh", "write", "repair"}

ExpectedKind(n) ==
    CASE n >= 2 -> "compound"
      [] n = 1 -> "solid"
      [] n = 0 -> "assembly"
      [] OTHER -> "none"

\* C9: for each file of convert_yanjingkuang whose solids were enumerated,
\* mesh_and_export is called exactly once (never twice, and at once after the
\* enumeration), with the compound of all solids when there are several
\* (one make_compound call), the solid itself when there is one and the whole
\* shape when there is none (no make_compound call); no solid count is an
\* error.
C9_MergeAllDispatch ==
    \A f \in MergeFiles :
       LET o == <<f, "all">>
           n == enumerated[f]
       IN /\ calls[o] <= 1
          /\ (n >= 0 /\ ~(file = f /\ pc = "merge")) =>
                /\ calls[o] = 1
                /\ callShape[o] = ExpectedKind(n)
                /\ compounds[o] = IF n >= 2 THEN 1 ELSE 0
          /\ n < 0 => calls[o] = 0
          /\ (file = f /\ InCall) =>
                shape.members = CASE n >= 2 -> Indices(solids)
                                  [] n = 1 -> <<1>>
                                  [] OTHER -> <<>>
          /\ failure.cause = "empty" => failure.file \notin MergeFiles

\* the whole job ran: no solids in 眼镜-提取1.step, one in 眼镜-提取2.step
C9_Witness ==
    /\ pc = "done"
    /\ callShape[<<3, "all">>] = "assembly"
    /\ callShape[<<4, "all">>] = "solid"

\* C10: the temporary file of a mesh_and_export call is unlinked at most
\* once; when the call has returned or raised, the file is gone, unlinked
\* exactly once if it was ever created; after a meshing failure it was never
\* created; and except when writing the raw mesh failed, it is unlinked only
\* once the repair attempt has ended.
C10_TempFileRemoved ==
    /\ unlinks <= 1
    /\ (tempState = "deleted") <=> (unlinks = 1)
    /\ pc = "m_ret" => tempState = "deleted"
    /\ (pc = "aborted" /\ failure.cause \in {"write", "repair"}) =>
          tempState = "deleted"
    /\ (pc = "aborted" /\ failure.cause = "mesh") =>
          tempState = "none" /\ unlinks = 0
    /\ (InCall /\ tempState = "deleted" /\ failure.cause # "write") =>
          /\ repairOutcome # "none"
          /\ pc \notin {"m_repair", "m_write", "m_tmp", "m_mesh"}
    /\ pc \in {"m_mesh", "m_tmp"} => tempState = "none"

\* the call returned after admesh timed out
C10_Witness ==
    /\ pc = "m_ret"
    /\ repairOutcome = "timeout"
    /\ tempState = "deleted"
    /\ unlinks = 1

====
